---- MODULE Spec2Model ----
(***************************************************************************)
(* Model of fdkaac/win32/wav_rw.{h,cc}: the WAV header codec               *)
(* (CheckWavParameters, WriteWavHeader, ReadWavHeader), the WavWriter and  *)
(* the WavReader.                                                          *)
(*                                                                         *)
(* Number representation.  `int` and `uint16_t` values are TLA+ integers   *)
(* (they fit TLC's 32-bit integers).  `uint32_t`, `uint64_t` and           *)
(* `size_t` values are little-endian sequences of base-256 digits without  *)
(* leading (high) zero digits, so that 2^32-1 and 64-bit products are      *)
(* exact; a w-byte unsigned type keeps its width by truncation to w        *)
(* digits.  The little-endian bytes of a field are those digits padded to  *)
(* the field's width.  size_t is taken 64 bits wide: line 340 of wav_rw.cc *)
(* only makes sense on such a build.  assert() is taken as enabled: a      *)
(* failed assertion ends the program ("fatal").                            *)
(***************************************************************************)
EXTENDS Integers, Sequences, FiniteSets, TLC

VARIABLES
    params,     \* the tuple handed to CheckWavParameters / WriteWavHeader
    accepted,   \* result of CheckWavParameters(params), "none" before the call
    buf,        \* the header bytes (uint8_t buf[kWavHeaderSize], or a file's head)
    dec,        \* result of ReadWavHeader(buf)
    hpc,        \* position of the header codec run
    ncorrupt,   \* number of foreign modifications applied to buf
    writer,     \* WavWriter object: fields of wav_rw.h:29-32
    file,       \* the file the writer wrote / the reader reads
    reader,     \* WavReader object: fields of wav_rw.h:55-59, plus FILE state
    out,        \* all samples returned by WavReader::ReadSamples so far
    last,       \* arguments and return value of the last WriteSamples / ReadSamples call
    nwrites,    \* number of WriteSamples calls made so far
    nreads      \* number of ReadSamples calls made so far

vars == <<params, accepted, buf, dec, hpc, ncorrupt, writer, file, reader, out, last, nwrites, nreads>>

(***************************************************************************)
(* Unsigned arithmetic on digit sequences.                                 *)
(***************************************************************************)
Min(a, b) == IF a <= b THEN a ELSE b

RECURSIVE Norm(_)
Norm(d) == IF d = <<>> THEN d
           ELSE IF d[Len(d)] = 0 THEN Norm(SubSeq(d, 1, Len(d) - 1)) ELSE d

RECURSIVE BN(_)
BN(n) == IF n = 0 THEN <<>> ELSE <<n % 256>> \o BN(n \div 256)

RECURSIVE BVal(_)
BVal(d) == IF d = <<>> THEN 0 ELSE d[1] + 256 * BVal(Tail(d))

Rest(d) == IF d = <<>> THEN d ELSE Tail(d)
Low(d) == IF d = <<>> THEN 0 ELSE d[1]

RECURSIVE AddC(_, _, _)
AddC(a, b, c) ==
    IF a = <<>> /\ b = <<>> THEN BN(c)
    ELSE LET s == Low(a) + Low(b) + c
         IN  <<s % 256>> \o AddC(Rest(a), Rest(b), s \div 256)

BAdd(a, b) == Norm(AddC(a, b, 0))

\* a - b for a >= b
RECURSIVE SubC(_, _, _)
SubC(a, b, c) ==
    IF a = <<>> THEN <<>>
    ELSE LET s == Low(a) - Low(b) - c
         IN  <<s % 256>> \o SubC(Rest(a), Rest(b), IF s < 0 THEN 1 ELSE 0)

BSub(a, b) == Norm(SubC(a, b, 0))

RECURSIVE MulC(_, _, _)
MulC(a, k, c) ==
    IF a = <<>> THEN BN(c)
    ELSE LET s == a[1] * k + c
         IN  <<s % 256>> \o MulC(Tail(a), k, s \div 256)

\* a * k for a digit k
BMulDigit(a, k) == Norm(MulC(a, k, 0))

RECURSIVE BMul(_, _)
BMul(a, b) ==
    IF a = <<>> THEN <<>>
    ELSE BAdd(BMulDigit(b, a[1]), Norm(<<0>> \o BMul(Tail(a), b)))

RECURSIVE CmpFrom(_, _, _)
CmpFrom(a, b, i) ==
    IF i = 0 THEN 0
    ELSE IF a[i] < b[i] THEN -1
    ELSE IF a[i] > b[i] THEN 1
    ELSE CmpFrom(a, b, i - 1)

\* -1, 0, 1 as a < b, a = b, a > b
BCmp(a, b) ==
    IF Len(a) < Len(b) THEN -1
    ELSE IF Len(a) > Len(b) THEN 1
    ELSE CmpFrom(a, b, Len(a))

BLeq(a, b) == BCmp(a, b) <= 0
BLess(a, b) == BCmp(a, b) < 0
BMin(a, b) == IF BLeq(a, b) THEN a ELSE b

\* quotient and remainder of a by an integer k in 1 .. 2^22
RECURSIVE DivMod(_, _)
DivMod(a, k) ==
    IF a = <<>> THEN [q |-> <<>>, r |-> 0]
    ELSE LET hi  == DivMod(Tail(a), k)
             cur == hi.r * 256 + a[1]
         IN  [q |-> <<cur \div k>> \o hi.q, r |-> cur % k]

BDiv(a, k) == Norm(DivMod(a, k).q)
BMod(a, k) == DivMod(a, k).r

\* the value modulo 2^(8w): what a w-byte unsigned type keeps
Trunc(d, w) == Norm(SubSeq(d, 1, Min(w, Len(d))))

\* the w little-endian bytes of a value below 2^(8w)
Bytes(d, w) == [i \in 1 .. w |-> IF i <= Len(d) THEN d[i] ELSE 0]

UINT16_MAX == 65535
UINT32_MAX == <<255, 255, 255, 255>>
INT32_MAX == <<255, 255, 255, 127>>

\* conversion of an int to uint32_t / uint64_t (two's complement)
ToU32(x) == IF x >= 0 THEN BN(x) ELSE BSub(UINT32_MAX, BN(-(x + 1)))
ToU64(x) == IF x >= 0 THEN BN(x)
            ELSE BSub(<<255, 255, 255, 255, 255, 255, 255, 255>>, BN(-(x + 1)))

\* conversion of a uint32_t to int
ToInt(d) == IF BLeq(d, INT32_MAX) THEN BVal(d) ELSE -(BVal(BSub(UINT32_MAX, d))) - 1

(***************************************************************************)
(* Layout (wav_rw.cc:9-62).                                                *)
(***************************************************************************)
ChunkHeaderSize == 8
FmtSubchunkSize == 24
kWavHeaderSize == 44
kWavFormatPcm == 1
kWavFormatALaw == 6
kWavFormatMuLaw == 7
kWavFormat == kWavFormatPcm
kBytesPerSample == 2
kFmtSubchunkSize == FmtSubchunkSize - ChunkHeaderSize
ExtSize == 2

\* byte offsets of the WavHeader fields
OffRiffID == 0
OffRiffSize == 4
OffRiffFormat == 8
OffFmtID == 12
OffFmtSize == 16
OffAudioFormat == 20
OffNumChannels == 22
OffSampleRate == 24
OffByteRate == 28
OffBlockAlign == 32
OffBitsPerSample == 34
OffData == 36
OffDataSize == 40

WriteBE16(x) == <<(x % 65536) \div 256, (x % 65536) % 256>>
WriteLE16(x) == <<(x % 65536) % 256, (x % 65536) \div 256>>
WriteLE32(x) == Bytes(Trunc(x, 4), 4)

\* the characters are kept as their ASCII codes
FourCC_RIFF == <<82, 73, 70, 70>>
FourCC_WAVE == <<87, 65, 86, 69>>
FourCC_fmt == <<102, 109, 116, 32>>
FourCC_data == <<100, 97, 116, 97>>

Field(b, off, w) == SubSeq(b, off + 1, off + w)
ReadLE16(b, off) == b[off + 1] + 256 * b[off + 2]
ReadLE32(b, off) == Norm(Field(b, off, 4))
ReadFourCC(b, off) == Field(b, off, 4)

RiffChunkSize(bytes_in_payload) ==
    Trunc(BSub(BAdd(bytes_in_payload, BN(kWavHeaderSize)), BN(ChunkHeaderSize)), 4)

ByteRate(num_channels, sample_rate, bytes_per_sample) ==
    Trunc(BMul(Trunc(BMul(ToU32(num_channels), ToU32(sample_rate)), 4),
               ToU32(bytes_per_sample)), 4)

BlockAlign(num_channels, bytes_per_sample) ==
    (num_channels * bytes_per_sample) % 65536

FormatAgrees(format, bytes_per_sample) ==
    CASE format = kWavFormatPcm -> bytes_per_sample = 1 \/ bytes_per_sample = 2
      [] format \in {kWavFormatALaw, kWavFormatMuLaw} -> bytes_per_sample = 1
      [] OTHER -> FALSE

MaxSamples(bytes_per_sample) ==
    Trunc(BDiv(BSub(UINT32_MAX, BN(kWavHeaderSize - ChunkHeaderSize)),
               bytes_per_sample), 4)

SamplesFitNoHeader(bytes_per_sample, num_samples) ==
    BLeq(num_samples, Trunc(BDiv(UINT32_MAX, bytes_per_sample), 4))

SamplesFit(bytes_per_sample, num_samples) ==
    BLeq(num_samples, MaxSamples(bytes_per_sample))

CheckWavParameters(num_channels, sample_rate, format, bytes_per_sample, num_samples) ==
    IF num_channels <= 0 \/ sample_rate <= 0 \/ bytes_per_sample <= 0 THEN FALSE
    ELSE IF BCmp(ToU64(sample_rate), UINT32_MAX) > 0 THEN FALSE
    ELSE IF BCmp(ToU64(num_channels), BN(UINT16_MAX)) > 0 THEN FALSE
    ELSE IF BCmp(Trunc(BMul(ToU64(bytes_per_sample), BN(8)), 8), BN(UINT16_MAX)) > 0
         THEN FALSE
    ELSE IF BCmp(Trunc(BMul(Trunc(BMul(ToU64(sample_rate), ToU64(num_channels)), 8),
                            ToU64(bytes_per_sample)), 8), UINT32_MAX) > 0
         THEN FALSE
    ELSE IF ~FormatAgrees(format, bytes_per_sample) THEN FALSE
    ELSE IF ~SamplesFit(bytes_per_sample, num_samples) THEN FALSE
    ELSE IF BMod(num_samples, num_channels) # 0 THEN FALSE
    ELSE TRUE

PayloadBytes(bytes_per_sample, num_samples) ==
    Trunc(BMul(ToU32(bytes_per_sample), num_samples), 4)

WriteWavHeader(num_channels, sample_rate, format, bytes_per_sample, num_samples) ==
    LET bytes_in_payload == PayloadBytes(bytes_per_sample, num_samples)
    IN  FourCC_RIFF
        \o WriteLE32(RiffChunkSize(bytes_in_payload))
        \o FourCC_WAVE
        \o FourCC_fmt
        \o WriteLE32(BN(kFmtSubchunkSize))
        \o WriteLE16(format)
        \o WriteLE16(num_channels)
        \o WriteLE32(ToU32(sample_rate))
        \o WriteLE32(ByteRate(num_channels, sample_rate, bytes_per_sample))
        \o WriteLE16(BlockAlign(num_channels, bytes_per_sample))
        \o WriteLE16(8 * bytes_per_sample)
        \o FourCC_data
        \o WriteLE32(bytes_in_payload)

DecodeBytesPerSample(bits_per_sample) == bits_per_sample \div 8

DecodeNumSamplesNoDiv(bytes_in_payload, bytes_per_sample) == bytes_in_payload

DecodeNumSamples(bytes_in_payload, bytes_per_sample) ==
    BDiv(bytes_in_payload, bytes_per_sample)

NoHeader ==
    [ok |-> FALSE, parsed |-> FALSE, num_channels |-> 0, sample_rate |-> 0,
     format |-> 0, bytes_per_sample |-> 0, num_samples |-> <<>>, consumed |-> 0]

\* The head of the file as the 44 bytes of a WavHeader: for a fmt chunk of
\* size 18 the two extension bytes are read apart and the data chunk header
\* follows them.
ReadWavHeader(f) ==
    IF Len(f) < kWavHeaderSize - ChunkHeaderSize THEN NoHeader
    ELSE
    LET fmt_size == ReadLE32(f, OffFmtSize)
        ext      == fmt_size # BN(kFmtSubchunkSize)
    IN
    IF ext /\ BN(kFmtSubchunkSize + ExtSize) # fmt_size THEN NoHeader
    ELSE IF ext /\ Len(f) < OffData + ExtSize THEN NoHeader
    ELSE IF ext /\ ReadLE16(f, OffData) # 0 THEN NoHeader
    ELSE
    LET skip == IF ext THEN ExtSize ELSE 0
    IN
    IF Len(f) < kWavHeaderSize + skip THEN NoHeader
    ELSE
    LET header           == SubSeq(f, 1, OffData) \o SubSeq(f, OffData + skip + 1,
                                                            kWavHeaderSize + skip)
        format           == ReadLE16(header, OffAudioFormat)
        num_channels     == ReadLE16(header, OffNumChannels)
        sample_rate      == ToInt(ReadLE32(header, OffSampleRate))
        bytes_per_sample == DecodeBytesPerSample(ReadLE16(header, OffBitsPerSample))
        bytes_in_payload == ReadLE32(header, OffDataSize)
    IN
    IF bytes_per_sample <= 0 THEN NoHeader
    ELSE
    LET num_samples == DecodeNumSamples(bytes_in_payload, bytes_per_sample)
        res == [ok |-> FALSE, parsed |-> TRUE, num_channels |-> num_channels,
                sample_rate |-> sample_rate, format |-> format,
                bytes_per_sample |-> bytes_per_sample, num_samples |-> num_samples,
                consumed |-> kWavHeaderSize + skip]
    IN
    IF ReadFourCC(header, OffRiffID) # FourCC_RIFF THEN res
    ELSE IF ReadFourCC(header, OffRiffFormat) # FourCC_WAVE THEN res
    ELSE IF ReadFourCC(header, OffFmtID) # FourCC_fmt THEN res
    ELSE IF ReadFourCC(header, OffData) # FourCC_data THEN res
    ELSE IF BLess(ReadLE32(header, OffRiffSize), RiffChunkSize(bytes_in_payload)) THEN res
    ELSE IF ReadLE32(header, OffByteRate)
            # ByteRate(num_channels, sample_rate, bytes_per_sample) THEN res
    ELSE IF ReadLE16(header, OffBlockAlign)
            # BlockAlign(num_channels, bytes_per_sample) THEN res
    ELSE [res EXCEPT !.ok = CheckWavParameters(num_channels, sample_rate, format,
                                               bytes_per_sample, num_samples)]

(***************************************************************************)
(* The header codec run: a tuple is validated, encoded into buf, buf may   *)
(* be altered the way a foreign encoder or a damaged file would have it,   *)
(* and is decoded.                                                         *)
(***************************************************************************)
MaxCorrupt == 1

\* the largest count whose payload and 36 header bytes fit 32 bits
Boundary(bytes_per_sample) == BDiv(BSub(UINT32_MAX, BN(36)), bytes_per_sample)

ChannelInputs == {0, 1, 2, 3, 40000, 65536}
RateInputs == {0, 1, 8000, 44100, 2147483647}
FormatInputs == {kWavFormatPcm, 2, kWavFormatALaw, kWavFormatMuLaw}
WidthInputs == {0, 1, 2, 3}
CountInputs ==
    {BN(0), BN(1), BN(2), BN(4), BN(200), BN(80000),
     Boundary(2), BAdd(Boundary(2), BN(1)),
     Boundary(1), BAdd(Boundary(1), BN(1)), UINT32_MAX}

ParamInputs ==
    [num_channels : ChannelInputs, sample_rate : RateInputs, format : FormatInputs,
     bytes_per_sample : WidthInputs, num_samples : CountInputs]

\* foreign contents of header fields: <<offset, bytes>>
FieldInputs ==
    {<<OffBlockAlign, WriteLE16(1)>>, <<OffBlockAlign, WriteLE16(4)>>,
     <<OffByteRate, WriteLE32(BN(8000))>>, <<OffByteRate, WriteLE32(BN(88200))>>,
     <<OffBitsPerSample, WriteLE16(0)>>, <<OffBitsPerSample, WriteLE16(7)>>,
     <<OffBitsPerSample, WriteLE16(9)>>, <<OffBitsPerSample, WriteLE16(17)>>,
     <<OffBitsPerSample, WriteLE16(24)>>,
     <<OffDataSize, WriteLE32(BN(3))>>, <<OffDataSize, WriteLE32(BN(5))>>,
     <<OffDataSize, WriteLE32(UINT32_MAX)>>,
     <<OffRiffSize, WriteLE32(BN(0))>>, <<OffRiffSize, WriteLE32(UINT32_MAX)>>,
     <<OffFmtSize, WriteLE32(BN(kFmtSubchunkSize + ExtSize))>>,
     <<OffNumChannels, WriteLE16(2)>>,
     <<OffSampleRate, WriteLE32(UINT32_MAX)>>,
     <<OffAudioFormat, WriteLE16(kWavFormatALaw)>>,
     <<OffRiffID, <<82, 73, 70, 88>> >>}

SetField(b, off, bytes) ==
    SubSeq(b, 1, off) \o bytes \o SubSeq(b, off + Len(bytes) + 1, Len(b))

\* a fmt chunk carrying the two-byte extension field with value x
WithExtension(b, x) ==
    SetField(SubSeq(b, 1, OffData) \o WriteLE16(x) \o SubSeq(b, OffData + 1, Len(b)),
             OffFmtSize, WriteLE32(BN(kFmtSubchunkSize + ExtSize)))

NoWriter ==
    [state |-> "none", sample_rate_ |-> 0, num_channels_ |-> 0, num_samples_ |-> <<>>]
NoFile == [header |-> <<>>, body |-> <<>>, altered |-> "no"]
NoReader ==
    [state |-> "none", sample_rate_ |-> 0, num_channels_ |-> 0, num_samples_ |-> <<>>,
     num_samples_remaining_ |-> <<>>, pos |-> 0, eof |-> FALSE]
NoCall == [call |-> "none"]

StreamIdle ==
    /\ writer = NoWriter
    /\ file = NoFile
    /\ reader = NoReader
    /\ out = <<>>
    /\ last = NoCall
    /\ nwrites = 0
    /\ nreads = 0

HeaderIdle ==
    /\ params = [num_channels |-> 0, sample_rate |-> 0, format |-> 0,
                 bytes_per_sample |-> 0, num_samples |-> <<>>]
    /\ accepted = "none"
    /\ buf = <<>>
    /\ dec = NoHeader
    /\ hpc = "idle"
    /\ ncorrupt = 0

streamVars == <<writer, file, reader, out, last, nwrites, nreads>>
headerVars == <<params, accepted, buf, dec, hpc, ncorrupt>>

Valid(p) ==
    CheckWavParameters(p.num_channels, p.sample_rate, p.format, p.bytes_per_sample,
                       p.num_samples)

InitHeader ==
    /\ params \in ParamInputs
    /\ accepted = "none"
    /\ buf = <<>>
    /\ dec = NoHeader
    /\ hpc = "start"
    /\ ncorrupt = 0
    /\ StreamIdle

Validate ==
    /\ hpc = "start"
    /\ accepted' = Valid(params)
    /\ hpc' = "checked"
    /\ UNCHANGED <<params, buf, dec, ncorrupt, streamVars>>

\* WriteWavHeader with its assertion (wav_rw.cc:154)
Encode ==
    /\ hpc = "checked"
    /\ IF Valid(params)
       THEN /\ buf' = WriteWavHeader(params.num_channels, params.sample_rate,
                                     params.format, params.bytes_per_sample,
                                     params.num_samples)
            /\ hpc' = "encoded"
       ELSE /\ buf' = buf
            /\ hpc' = "fatal"
    /\ UNCHANGED <<params, accepted, dec, ncorrupt, streamVars>>

CorruptField ==
    /\ hpc = "encoded"
    /\ ncorrupt < MaxCorrupt
    /\ \E c \in FieldInputs :
         /\ c[1] + Len(c[2]) <= Len(buf)
         /\ buf' = SetField(buf, c[1], c[2])
    /\ ncorrupt' = ncorrupt + 1
    /\ UNCHANGED <<params, accepted, dec, hpc, streamVars>>

AddExtension ==
    /\ hpc = "encoded"
    /\ ncorrupt < MaxCorrupt
    /\ Len(buf) = kWavHeaderSize
    /\ \E x \in {0, 1} : buf' = WithExtension(buf, x)
    /\ ncorrupt' = ncorrupt + 1
    /\ UNCHANGED <<params, accepted, dec, hpc, streamVars>>

CutShort ==
    /\ hpc = "encoded"
    /\ ncorrupt < MaxCorrupt
    /\ \E n \in {OffData - 1, kWavHeaderSize - 1} : n < Len(buf) /\ buf' = SubSeq(buf, 1, n)
    /\ ncorrupt' = ncorrupt + 1
    /\ UNCHANGED <<params, accepted, dec, hpc, streamVars>>

Decode ==
    /\ hpc = "encoded"
    /\ dec' = ReadWavHeader(buf)
    /\ hpc' = "decoded"
    /\ UNCHANGED <<params, accepted, buf, ncorrupt, streamVars>>

NextHeader == Validate \/ Encode \/ CorruptField \/ AddExtension \/ CutShort \/ Decode

SpecHeader == InitHeader /\ [][NextHeader]_vars

(***************************************************************************)
(* Files.  The samples after the header are kept as the sequence of the    *)
(* fwrite calls that produced them: a run of n samples, sample i of the    *)
(* run being pat[(off + i) mod Len(pat)], so that a buffer of 2^32 samples *)
(* has a finite description.  Trailing foreign data is kept in whole       *)
(* 16-bit units, the only units fread(.., sizeof(int16_t), ..) returns.    *)
(***************************************************************************)
RECURSIVE BodyLen(_)
BodyLen(body) == IF body = <<>> THEN <<>> ELSE BAdd(body[1].n, BodyLen(Tail(body)))

RunSample(run, i) == run.pat[((run.off + i) % Len(run.pat)) + 1]

\* sample number i (from 0) of the body, for i < BodyLen(body)
RECURSIVE SampleAt(_, _)
SampleAt(body, i) ==
    IF BLess(BN(i), body[1].n) THEN RunSample(body[1], i)
    ELSE SampleAt(Tail(body), i - BVal(body[1].n))

Samples(body, from, k) == [j \in 1 .. k |-> SampleAt(body, from + j - 1)]

\* the first k samples of the body
RECURSIVE Keep(_, _)
Keep(body, k) ==
    IF k = <<>> \/ body = <<>> THEN <<>>
    ELSE IF BLeq(body[1].n, k) THEN <<body[1]>> \o Keep(Tail(body), BSub(k, body[1].n))
    ELSE <<[body[1] EXCEPT !.n = k]>>

\* fwrite(samples, sizeof(*samples), num_samples, file_handle_) storing `written`
Fwrite(body, samples, written) ==
    IF written = <<>> THEN body ELSE Append(body, [samples EXCEPT !.n = written])

BlankHeader == [i \in 1 .. kWavHeaderSize |-> 0]

(***************************************************************************)
(* WavWriter (wav_rw.cc:310-367).                                          *)
(***************************************************************************)
kChunksize == 4096 \div 2

\* a float is kept in tenths: v = t / 10 (finite values only: the conversion
\* of a NaN is undefined and no input below is one)
kMaxRound == 327665
kMinRound == -327675
INT16_MAX == 32767
INT16_MIN == -32768

FloatS16ToS16(t) ==
    IF t > 0
    THEN IF t >= kMaxRound THEN INT16_MAX ELSE (t + 5) \div 10
    ELSE IF t <= kMinRound THEN INT16_MIN ELSE -((5 - t) \div 10)

FloatsS16ToS16(src) == [i \in 1 .. Len(src) |-> FloatS16ToS16(src[i])]

WriterCtor(sample_rate, num_channels, opened) ==
    LET w == [state |-> "open", sample_rate_ |-> sample_rate,
              num_channels_ |-> num_channels, num_samples_ |-> <<>>]
    IN  IF ~opened THEN [w |-> [w EXCEPT !.state = "fatal"], f |-> NoFile]
        ELSE IF ~CheckWavParameters(num_channels, sample_rate, kWavFormat,
                                    kBytesPerSample, <<>>)
        THEN [w |-> [w EXCEPT !.state = "fatal"],
              f |-> [header |-> <<>>, body |-> <<>>, altered |-> "no"]]
        ELSE [w |-> w, f |-> [header |-> BlankHeader, body |-> <<>>, altered |-> "no"]]

AddSamplesAssign(num_samples_, written) == Trunc(written, 4)

AddSamples(num_samples_, written) == Trunc(BAdd(num_samples_, Trunc(written, 4)), 4)

OverflowCheck(num_samples_, written) ==
    BLeq(written, UINT32_MAX) \/ BLeq(written, num_samples_)

\* WavWriter::WriteSamples(const int16_t*, size_t), fwrite storing `written`
WriteSamplesI16(w, f, samples, written) ==
    LET f2 == [f EXCEPT !.body = Fwrite(f.body, samples, written)]
        ns == AddSamples(w.num_samples_, written)
        w2 == [w EXCEPT !.num_samples_ = ns]
    IN  IF samples.n # written THEN [w |-> [w EXCEPT !.state = "fatal"], f |-> f2]
        ELSE IF ~OverflowCheck(ns, written)
        THEN [w |-> [w2 EXCEPT !.state = "fatal"], f |-> f2]
        ELSE IF ~CheckWavParameters(w.num_channels_, w.sample_rate_, kWavFormat,
                                    kBytesPerSample, ns)
        THEN [w |-> [w2 EXCEPT !.state = "fatal"], f |-> f2]
        ELSE [w |-> w2, f |-> f2]

\* the loop of WavWriter::WriteSamples(const float*, size_t) from index i on
RECURSIVE FloatLoop(_, _, _, _)
FloatLoop(wf, samples, i, disk_ok) ==
    IF ~BLess(i, samples.n) THEN wf
    ELSE LET chunk    == BMin(BN(kChunksize), BSub(samples.n, i))
             isamples == [n |-> chunk, pat |-> FloatsS16ToS16(samples.pat),
                          off |-> samples.off + BVal(i)]
             r        == WriteSamplesI16(wf.w, wf.f, isamples,
                                         IF disk_ok THEN chunk ELSE <<>>)
         IN  IF r.w.state # "open" THEN r
             ELSE FloatLoop(r, samples, BAdd(i, BN(kChunksize)), disk_ok)

WriteSamplesFloat(w, f, samples, disk_ok) ==
    FloatLoop([w |-> w, f |-> f], samples, <<>>, disk_ok)

\* WavWriter::Close, reached from the destructor
WriterClose(w, f) ==
    IF ~CheckWavParameters(w.num_channels_, w.sample_rate_, kWavFormat,
                           kBytesPerSample, w.num_samples_)
    THEN [w |-> [w EXCEPT !.state = "fatal"], f |-> f]
    ELSE [w |-> [w EXCEPT !.state = "closed"],
          f |-> [f EXCEPT !.header = WriteWavHeader(w.num_channels_, w.sample_rate_,
                                                    kWavFormat, kBytesPerSample,
                                                    w.num_samples_)]]

(***************************************************************************)
(* WavReader (wav_rw.cc:257-308).                                          *)
(***************************************************************************)
ReaderCtor(f, opened) ==
    LET h == ReadWavHeader(f.header)
        r == [state |-> "open", sample_rate_ |-> h.sample_rate,
              num_channels_ |-> h.num_channels, num_samples_ |-> h.num_samples,
              num_samples_remaining_ |-> h.num_samples, pos |-> 0, eof |-> FALSE]
    IN  IF ~opened THEN [NoReader EXCEPT !.state = "fatal"]
        ELSE IF ~h.ok THEN [NoReader EXCEPT !.state = "fatal"]
        ELSE IF kWavFormat # h.format THEN [r EXCEPT !.state = "fatal"]
        ELSE IF kBytesPerSample # h.bytes_per_sample THEN [r EXCEPT !.state = "fatal"]
        ELSE r

ClampRequest(num_samples, num_samples_remaining_) ==
    BMin(Trunc(num_samples, 4), num_samples_remaining_)

\* what fread hands back for a request of num elements: the elements left in
\* the file, or none of them on a device error
Fread(f, pos, num, io_ok) ==
    LET avail == BSub(BodyLen(f.body), BN(pos))
    IN  IF io_ok THEN BVal(BMin(num, avail)) ELSE 0

ShortReadAlways(read, num, eof) == TRUE

ShortReadAllowed(read, num, eof) == read = BVal(num) \/ eof

RemainingKept(num_samples_remaining_, read) == num_samples_remaining_

Remaining(num_samples_remaining_, read) == BSub(num_samples_remaining_, BN(read))

\* WavReader::ReadSamples(size_t, int16_t*): the reader after the call, the
\* samples stored and the count returned
ReadSamplesI16(r, f, num_samples, io_ok) ==
    LET num   == ClampRequest(num_samples, r.num_samples_remaining_)
        read  == Fread(f, r.pos, num, io_ok)
        eof   == r.eof \/ (io_ok /\ BLess(BSub(BodyLen(f.body), BN(r.pos)), num))
        r2    == [r EXCEPT !.pos = r.pos + read, !.eof = eof]
    IN  IF ~ShortReadAllowed(read, num, eof) \/ ~BLeq(BN(read), r.num_samples_remaining_)
        THEN [r |-> [r2 EXCEPT !.state = "fatal"], samples |-> <<>>, read |-> read,
              num |-> num]
        ELSE [r |-> [r2 EXCEPT !.num_samples_remaining_ =
                                   Remaining(r.num_samples_remaining_, read)],
              samples |-> Samples(f.body, r.pos, read), read |-> read, num |-> num]

(***************************************************************************)
(* The stream run: a writer is constructed, fed and destroyed; the file    *)
(* may then get foreign trailing data or lose its end; a reader is         *)
(* constructed on it and reads.                                            *)
(***************************************************************************)
MaxWrites == 2
MaxReads == 2

TwoTo32 == BAdd(UINT32_MAX, BN(1))

Buffer(n, pat) == [n |-> n, pat |-> pat, off |-> 0]

RateArgs == {8000, 44100}
StreamChannels == {0, 1, 2}
WriterChannels == {1, 2, 3}

SmallBuffers ==
    {Buffer(BN(0), <<0>>), Buffer(BN(1), <<7>>), Buffer(BN(2), <<5, -5>>),
     Buffer(BN(4), <<1, -1, 100, -100>>)}

BigBuffers ==
    {Buffer(BN(1), <<7>>), Buffer(BN(6), <<1, 2, 3>>), Buffer(BN(3000), <<1, 2, 3>>),
     Buffer(Boundary(kBytesPerSample), <<1>>),
     Buffer(BSub(Boundary(kBytesPerSample), BN(1)), <<1, 2>>),
     Buffer(BAdd(Boundary(kBytesPerSample), BN(1)), <<1, 2>>),
     Buffer(UINT32_MAX, <<4>>), Buffer(BSub(UINT32_MAX, BN(5)), <<4, 5, 6>>),
     Buffer(TwoTo32, <<1, 2>>), Buffer(BAdd(TwoTo32, BN(6)), <<1, 2, 3>>)}

FloatBuffers ==
    {Buffer(BN(0), <<0>>), Buffer(BN(4), <<400000, -400000, 1004, 1006>>),
     Buffer(BN(6), <<5, -5, 15>>), Buffer(BN(kChunksize), <<10, -14>>),
     Buffer(BN(3000), <<10, 20, 30>>), Buffer(BN(2 * kChunksize), <<327664, -327674>>),
     Buffer(BN(3 * kChunksize), <<10, 20, 30>>), Buffer(BN(2 * kChunksize + 2), <<-16, 24>>)}

TrailInputs == {Buffer(BN(1), <<9>>), Buffer(BN(3), <<11, 12, 13>>)}
KeepInputs == {BN(0), BN(1), BN(3)}
RequestInputs == {BN(0), BN(1), BN(3), BN(10), BAdd(TwoTo32, BN(2))}

InitStream == HeaderIdle /\ StreamIdle

OpenWriter(channels) ==
    /\ writer.state = "none"
    /\ \E sample_rate \in RateArgs, num_channels \in channels, opened \in BOOLEAN :
         LET c == WriterCtor(sample_rate, num_channels, opened)
         IN  writer' = c.w /\ file' = c.f
    /\ UNCHANGED <<headerVars, reader, out, last, nwrites, nreads>>

WriteInt16(buffers) ==
    /\ writer.state = "open"
    /\ nwrites < MaxWrites
    /\ \E samples \in buffers, disk_ok \in BOOLEAN :
         LET c == WriteSamplesI16(writer, file, samples,
                                  IF disk_ok THEN samples.n ELSE <<>>)
         IN  /\ writer' = c.w
             /\ file' = c.f
             /\ last' = [call |-> "WriteSamplesI16", writer |-> writer, file |-> file,
                         samples |-> samples, disk_ok |-> disk_ok]
    /\ nwrites' = nwrites + 1
    /\ UNCHANGED <<headerVars, reader, out, nreads>>

WriteFloat(buffers) ==
    /\ writer.state = "open"
    /\ nwrites < MaxWrites
    /\ \E samples \in buffers, disk_ok \in BOOLEAN :
         LET c == WriteSamplesFloat(writer, file, samples, disk_ok)
         IN  /\ writer' = c.w
             /\ file' = c.f
             /\ last' = [call |-> "WriteSamplesFloat", writer |-> writer, file |-> file,
                         samples |-> samples, disk_ok |-> disk_ok]
    /\ nwrites' = nwrites + 1
    /\ UNCHANGED <<headerVars, reader, out, nreads>>

CloseWriter ==
    /\ writer.state = "open"
    /\ LET c == WriterClose(writer, file)
       IN  writer' = c.w /\ file' = c.f
    /\ UNCHANGED <<headerVars, reader, out, last, nwrites, nreads>>

AppendTrailing ==
    /\ writer.state = "closed"
    /\ reader.state = "none"
    /\ file.altered = "no"
    /\ \E t \in TrailInputs :
         file' = [file EXCEPT !.body = Fwrite(file.body, t, t.n), !.altered = "trailing"]
    /\ UNCHANGED <<headerVars, writer, reader, out, last, nwrites, nreads>>

TruncateFile ==
    /\ writer.state = "closed"
    /\ reader.state = "none"
    /\ file.altered = "no"
    /\ \E k \in KeepInputs :
         /\ BLess(k, BodyLen(file.body))
         /\ file' = [file EXCEPT !.body = Keep(file.body, k), !.altered = "truncated"]
    /\ UNCHANGED <<headerVars, writer, reader, out, last, nwrites, nreads>>

OpenReader ==
    /\ writer.state \in {"closed", "fatal"}
    /\ reader.state = "none"
    /\ \E opened \in BOOLEAN : reader' = ReaderCtor(file, opened)
    /\ UNCHANGED <<headerVars, writer, file, out, last, nwrites, nreads>>

ReadInt16 ==
    /\ reader.state = "open"
    /\ nreads < MaxReads
    /\ \E num_samples \in RequestInputs, io_ok \in BOOLEAN :
         LET c == ReadSamplesI16(reader, file, num_samples, io_ok)
         IN  /\ reader' = c.r
             /\ out' = out \o c.samples
             /\ last' = [call |-> "ReadSamples", requested |-> num_samples,
                         before |-> reader.num_samples_remaining_, num |-> c.num,
                         returned |-> c.read, samples |-> c.samples]
    /\ nreads' = nreads + 1
    /\ UNCHANGED <<headerVars, writer, file, nwrites>>

CloseReader ==
    /\ reader.state = "open"
    /\ reader' = [reader EXCEPT !.state = "closed"]
    /\ UNCHANGED <<headerVars, writer, file, out, last, nwrites, nreads>>

NextStream ==
    \/ OpenWriter(StreamChannels)
    \/ WriteInt16(SmallBuffers)
    \/ CloseWriter
    \/ AppendTrailing
    \/ TruncateFile
    \/ OpenReader
    \/ ReadInt16
    \/ CloseReader

SpecStream == InitStream /\ [][NextStream]_vars

NextWriter ==
    \/ OpenWriter(WriterChannels)
    \/ WriteInt16(BigBuffers)
    \/ WriteFloat(FloatBuffers)
    \/ CloseWriter

SpecWriter == InitStream /\ [][NextWriter]_vars

(***************************************************************************)
(* Properties of the header codec, under SpecHeader.                       *)
(***************************************************************************)
TrueProduct(a, b, c) == BMul(BMul(BN(a), BN(b)), BN(c))

Tuple(d) ==
    [num_channels |-> d.num_channels, sample_rate |-> d.sample_rate,
     format |-> d.format, bytes_per_sample |-> d.bytes_per_sample,
     num_samples |-> d.num_samples]

\* C1: a tuple the validator accepts, encoded by WriteWavHeader and decoded by
\* ReadWavHeader from those 44 bytes, decodes successfully to the same tuple.
C1_HeaderRoundTrip ==
    (hpc = "decoded" /\ ncorrupt = 0) =>
        /\ dec.ok
        /\ Tuple(dec) = params
        /\ dec.consumed = 44

C1_Witness ==
    /\ hpc = "decoded"
    /\ ncorrupt = 0
    /\ dec.ok
    /\ params = [num_channels |-> 2, sample_rate |-> 44100, format |-> 1,
                 bytes_per_sample |-> 2, num_samples |-> BN(200)]

\* C4: in the header encoded for an accepted tuple the ByteRate field is exactly
\* channels x sample_rate x bytes_per_sample and the BlockAlign field is exactly
\* channels x bytes_per_sample (the products as integers, not wrapped).
C4_ExactRateFields ==
    (hpc = "encoded" /\ ncorrupt = 0) =>
        /\ ReadLE32(buf, OffByteRate)
           = TrueProduct(params.num_channels, params.sample_rate, params.bytes_per_sample)
        /\ ReadLE16(buf, OffBlockAlign) = params.num_channels * params.bytes_per_sample

\* C5: when the other checks pass and num_samples is a multiple of channels,
\* the validator accepts exactly when bytes_per_sample x num_samples + 36 fits
\* 32 bits, and the RIFF size field of the encoded header is that sum, unwrapped.
C5_RiffSizeGuard ==
    LET total == BAdd(BMul(BN(params.bytes_per_sample), params.num_samples), BN(36))
    IN  /\ (/\ hpc = "checked"
            /\ Valid([params EXCEPT !.num_samples = <<>>])
            /\ BMod(params.num_samples, params.num_channels) = 0)
           => (accepted <=> BLeq(total, UINT32_MAX))
        /\ (hpc = "encoded" /\ ncorrupt = 0) => ReadLE32(buf, OffRiffSize) = total

C5_Witness ==
    /\ hpc = "checked"
    /\ accepted = TRUE
    /\ params.bytes_per_sample = 2
    /\ params.num_samples = BN(2147483629)

\* C6: a header whose stored BlockAlign differs from decoded channels x
\* bytes_per_sample, or whose stored ByteRate differs from decoded channels x
\* sample_rate x bytes_per_sample, is never accepted by ReadWavHeader.
C6_MismatchRejected ==
    (hpc = "decoded" /\ dec.parsed) =>
        ((\/ ReadLE16(buf, OffBlockAlign) # dec.num_channels * dec.bytes_per_sample
          \/ dec.sample_rate < 0
          \/ ReadLE32(buf, OffByteRate)
             # TrueProduct(dec.num_channels, dec.sample_rate, dec.bytes_per_sample))
         => ~dec.ok)

StoredBits == ReadLE16(buf, OffBitsPerSample)
StoredDataSize == ReadLE32(buf, OffDataSize + (dec.consumed - 44))
DecodedPayload == BMul(BN(dec.bytes_per_sample), dec.num_samples)

\* C10 as stated: an accepted header stores bits_per_sample = 8 x the returned
\* bytes_per_sample and a data size = bytes_per_sample x the returned num_samples.
C10_ExactFields ==
    (hpc = "decoded" /\ dec.ok) =>
        /\ StoredBits = 8 * dec.bytes_per_sample
        /\ StoredDataSize = DecodedPayload

\* C10 as amended: an accepted header stores a bits_per_sample in
\* 8 x bytes_per_sample .. 8 x bytes_per_sample + 7 and a data size in
\* bytes_per_sample x num_samples .. bytes_per_sample x num_samples +
\* bytes_per_sample - 1 (the returned values are the quotients, rounded down).
C10_FloorFields ==
    (hpc = "decoded" /\ dec.ok) =>
        /\ StoredBits - 8 * dec.bytes_per_sample \in 0 .. 7
        /\ BLeq(DecodedPayload, StoredDataSize)
        /\ BLess(BSub(StoredDataSize, DecodedPayload), BN(dec.bytes_per_sample))

C10_Witness ==
    /\ hpc = "decoded"
    /\ dec.ok
    /\ StoredBits = 17
    /\ dec.bytes_per_sample = 2

(***************************************************************************)
(* Properties of the reader and of the whole stream, under SpecStream.     *)
(***************************************************************************)
Returned == reader.state \in {"open", "closed"}
Declared == reader.num_samples_
Left == reader.num_samples_remaining_
FilePrefix(n) == Samples(file.body, 0, n)

C3_NoReadPastPayload ==
    (Returned /\ BLeq(Declared, BodyLen(file.body))) =>
        /\ BAdd(BN(Len(out)), Left) = Declared
        /\ BLeq(BN(Len(out)), Declared)
        /\ out = FilePrefix(Len(out))
        /\ last.call = "ReadSamples" =>
               /\ Len(last.samples) = last.returned
               /\ BLeq(BN(last.returned), BMin(last.requested, last.before))
               /\ BLeq(Left, last.before)
               /\ BAdd(Left, BN(last.returned)) = last.before

C3_Witness ==
    /\ Returned
    /\ file.altered = "trailing"
    /\ Declared = BN(4)
    /\ Len(out) = 4
    /\ Left = <<>>
    /\ last.call = "ReadSamples"
    /\ last.requested = BN(3)
    /\ last.returned = 0

\* C8 as stated (for requests below 2^32): a read that returns fewer samples
\* than min(requested, remaining) returns normally only at end-of-source with
\* remaining at zero.
C8_ShortOnlyAtEndAndZero ==
    (/\ Returned
     /\ last.call = "ReadSamples"
     /\ BLeq(last.requested, UINT32_MAX)
     /\ BLess(BN(last.returned), BMin(last.requested, last.before)))
    => (reader.eof /\ Left = <<>>)

\* C8 as amended: a read that obtains fewer samples than min(requested mod
\* 2^32, remaining) returns normally exactly when the source's end-of-file
\* indicator is set (remaining may then stay above zero) and is fatal otherwise.
C8_ShortOnlyAtEnd ==
    (/\ reader.state # "none"
     /\ last.call = "ReadSamples"
     /\ BLess(BN(last.returned), BMin(Trunc(last.requested, 4), last.before)))
    => /\ Returned <=> reader.eof
       /\ reader.state = "fatal" <=> ~reader.eof
       /\ Returned => BAdd(Left, BN(last.returned)) = last.before

C8_Witness ==
    /\ reader.state = "open"
    /\ file.altered = "truncated"
    /\ last.call = "ReadSamples"
    /\ BLess(BN(last.returned), BMin(Trunc(last.requested, 4), last.before))
    /\ reader.eof
    /\ Left # <<>>

(***************************************************************************)
(* Properties of the writer, under SpecWriter.                             *)
(***************************************************************************)
Writes == {"WriteSamplesI16", "WriteSamplesFloat"}

\* C7: while the writer is usable num_samples never decreases and equals the
\* true number of samples written so far (the samples in the file); no write
\* leaves a wrapped-around count behind.
C7_ExactCount ==
    writer.state = "open" =>
        /\ writer.num_samples_ = BodyLen(file.body)
        /\ last.call \in Writes => BLeq(last.writer.num_samples_, writer.num_samples_)

Appended(f, g, i) == SampleAt(f.body, BVal(BodyLen(g.body)) + i)

\* C9: a float write succeeds exactly when the int16 write of the converted
\* samples would, and leaves the same num_samples and the same payload.
C9_FloatAsInt16 ==
    last.call = "WriteSamplesFloat" =>
        LET isamples == [last.samples EXCEPT !.pat = FloatsS16ToS16(last.samples.pat)]
            ref      == WriteSamplesI16(last.writer, last.file, isamples,
                                        IF last.disk_ok THEN isamples.n ELSE <<>>)
        IN  /\ (writer.state = "open") <=> (ref.w.state = "open")
            /\ writer.state = "open" =>
                   /\ writer.num_samples_ = ref.w.num_samples_
                   /\ BodyLen(file.body) = BodyLen(ref.f.body)
                   /\ BLeq(BodyLen(file.body), BN(4 * kChunksize)) =>
                          \A i \in 0 .. BVal(isamples.n) - 1 :
                              Appended(file, last.file, i) = Appended(ref.f, last.file, i)

====
